---- MODULE Spec2Model ----
(***************************************************************************)
(* Sales controller (controllers/salesController.js): the sale store, the  *)
(* item store with its stock counters, and the handlers createSale,        *)
(* updateSale, deleteSale and getFrequentlySoldItems.  Every handler is an *)
(* async function: it can be interleaved with other requests at each       *)
(* await, so a handler is one action per awaited store operation.          *)
(***************************************************************************)
EXTENDS Integers, Sequences, FiniteSets

(* ------------------------------ bounds --------------------------------- *)

\* Requests the server handles at the same time.
MaxReq == 2

\* Sales ever created (sale ids are never reused).
MaxSales == 1

\* Sales the collection holds when a report is asked for.
MaxStored == 2

Reqs == 1..MaxReq

SaleIds == 1..MaxSales

(* ------------------------------ data ----------------------------------- *)

\* The records of the item collection.
Items == {"A", "B"}

\* An item id that no record of the item collection carries.
DanglingItem == "X"

\* The stock of the item records before any sale.
InitStock == [i \in Items |-> IF i = "A" THEN 10 ELSE 5]

\* The records of the user collection: id -> name.
UserName == [u \in {"U1", "U2"} |-> IF u = "U1" THEN "Ann" ELSE "Bob"]

\* A user id that no record of the user collection carries.
DanglingUser == "U9"

Line(i, q) == [item_id |-> i, quantity |-> q]

\* The line-item arrays requests carry in the stock model.
SaleItems ==
    { << >>,
      << Line("A", 1) >>,
      << Line("A", 2), Line("B", 1) >>,
      << Line("B", 1), Line("A", 2) >>,
      << Line("A", 1), Line("A", 2) >>,
      << Line(DanglingItem, 1), Line("B", 2) >> }

\* req.body of POST /sales.  valid: the body passes the Sale schema;
\* date 0: the body carries no date.
CreateBodies ==
    { [user_id |-> "U1", date |-> 0, items |-> it, valid |-> TRUE] : it \in SaleItems }

\* req.body of PUT /sales/:id.  set_items: the body has an items field.
UpdateBodies ==
    { [set_items |-> TRUE, items |-> it, user_id |-> "U1", valid |-> TRUE] :
          it \in { << Line("A", 1) >> } }
      \cup { [set_items |-> FALSE, items |-> << >>, user_id |-> "U1", valid |-> TRUE] }

\* The bodies of the requests whose store operation throws: one the
\* schema refuses, one it accepts (the store fails).
ThrowingCreateBodies ==
    { [user_id |-> "U1", date |-> 0, items |-> << Line("A", 1) >>, valid |-> v] :
          v \in BOOLEAN }

ThrowingUpdateBodies ==
    { [set_items |-> TRUE, items |-> << Line("A", 1) >>, user_id |-> "U1", valid |-> v] :
          v \in BOOLEAN }

(* ------------------------------ dates ---------------------------------- *)

IsLeap(y) == (y % 4 = 0 /\ y % 100 # 0) \/ y % 400 = 0

DaysInMonth(y, m) ==
    IF m = 2 THEN (IF IsLeap(y) THEN 29 ELSE 28)
    ELSE IF m \in {4, 6, 9, 11} THEN 30 ELSE 31

RECURSIVE DaysBeforeMonth(_, _)
DaysBeforeMonth(y, m) ==
    IF m <= 1 THEN 0 ELSE DaysBeforeMonth(y, m - 1) + DaysInMonth(y, m - 1)

\* The day number of year y, month m (1..12, or outside: carried into the
\* year), day d (1.., or outside: carried into the months), as Date's
\* setters compute it: the first of the month plus d - 1 days.
MakeDay(y, m, d) ==
    LET yy == y + ((m - 1) \div 12)
        mm == ((m - 1) % 12) + 1
        py == yy - 1
    IN  365 * py + (py \div 4) - (py \div 100) + (py \div 400)
          + DaysBeforeMonth(yy, mm) + d - 1

DayOf(t) == MakeDay(t.y, t.m, t.d)

\* pastWeek.setDate(now.getDate() - 7)
pastWeek(t) == MakeDay(t.y, t.m, t.d - 7)

\* pastMonth.setMonth(now.getMonth() - 1)
pastMonth(t) == MakeDay(t.y, t.m - 1, t.d)

\* pastYear.setFullYear(now.getFullYear() - 1)
pastYear(t) == MakeDay(t.y - 1, t.m, t.d)

(* ------------------------------ state ---------------------------------- *)

VARIABLES
    now,       \* the server clock, a calendar date [y, m, d]
    stock,     \* Item collection: item id -> stock
    sales,     \* Sale collection: sale id -> [user_id, date, items]
    nextId,    \* the next sale id to generate
    req,       \* per request in progress: the handler, its position, its locals
    res,       \* the response sent last: [kind, status, err]
    report,    \* the body of the last getFrequentlySoldItems response
    applied,   \* history: per request in progress, the stock change it made
    handed     \* history: per sale id, times findByIdAndDelete returned it

vars == << now, stock, sales, nextId, req, res, report, applied, handed >>

\* A request slot no handler runs in.  id, items: the handler's sale
\* document; k: the line item its loop adjusts next.
Idle == [kind |-> "none", pc |-> "idle", id |-> 0, items |-> << >>, k |-> 0]

\* res.status(code) of handler kind; err: what its try block threw
\* ("validation": the body was refused, "store": a store operation failed,
\* "type": a TypeError).
Response(kind, code, err) == [kind |-> kind, status |-> code, err |-> err]

NoChange == [i \in Items |-> 0]

NoReport == [weekly |-> << >>, monthly |-> << >>, yearly |-> << >>]

\* The clock reading of the stock model.
Today == [y |-> 2024, m |-> 3, d |-> 31]

Init ==
    /\ now = Today
    /\ stock = InitStock
    /\ sales = << >>
    /\ nextId = 1
    /\ req = [r \in Reqs |-> Idle]
    /\ res = Response("none", 0, "none")
    /\ report = [agg |-> NoReport, body |-> NoReport]
    /\ applied = [r \in Reqs |-> NoChange]
    /\ handed = [s \in SaleIds |-> 0]

(* ------------------------------ store ---------------------------------- *)

\* IncStock as a write of a value computed from a stock read earlier.
IncStock_staleWrite(st, id, delta) ==
    IF id \in DOMAIN st THEN [st EXCEPT ![id] = InitStock[id] + delta] ELSE st

\* Item.findByIdAndUpdate(id, {$inc: {stock: delta}}): one atomic add on the
\* record; no record with that id: nothing is changed, null is returned.
IncStock(st, id, delta) ==
    IF id \in DOMAIN st THEN [st EXCEPT ![id] = @ + delta] ELSE st

\* new Sale(req.body): the document to save; date defaults to the clock.
NewSale(body) ==
    [user_id |-> body.user_id,
     date |-> IF body.date = 0 THEN DayOf(now) ELSE body.date,
     items |-> body.items]

\* The collection f with the document v stored under k.
Put(f, k, v) == [x \in DOMAIN f \cup {k} |-> IF x = k THEN v ELSE f[x]]

\* The collection f without the document under k.
Drop(f, k) == [x \in DOMAIN f \ {k} |-> f[x]]

\* The change between two stock tables, per item.
Change(old, new) == [i \in Items |-> new[i] - old[i]]

Plus(f, g) == [i \in Items |-> f[i] + g[i]]

\* The quantity the line items of one sale take from item i.
RECURSIVE QtyOf(_, _)
QtyOf(items, i) ==
    IF items = << >> THEN 0
    ELSE (IF Head(items).item_id = i THEN Head(items).quantity ELSE 0)
           + QtyOf(Tail(items), i)

\* The quantity the sales of collection c with ids up to n take from item i.
RECURSIVE Sold(_, _, _)
Sold(c, n, i) ==
    IF n = 0 THEN 0
    ELSE (IF n \in DOMAIN c THEN QtyOf(c[n].items, i) ELSE 0) + Sold(c, n - 1, i)

\* A new request is taken by the first slot no handler runs in.
Free(r) ==
    /\ req[r].pc = "idle"
    /\ \A q \in Reqs : q < r => req[q].pc # "idle"

(* ---------------------------- createSale ------------------------------- *)

\* const sale = new Sale(req.body); await sale.save(): the body passes the
\* schema and the document is inserted under a fresh id.  With no line item
\* the loop is empty and res.status(201) follows at once.
createSale_save(r, body) ==
    /\ Free(r)
    /\ body.valid
    /\ nextId <= MaxSales
    /\ sales' = Put(sales, nextId, NewSale(body))
    /\ nextId' = nextId + 1
    /\ IF body.items = << >>
       THEN /\ res' = Response("create", 201, "none")
            /\ UNCHANGED req
       ELSE /\ req' = [req EXCEPT ![r] =
                        [kind |-> "create", pc |-> "loop", id |-> nextId,
                         items |-> body.items, k |-> 1]]
            /\ UNCHANGED res
    /\ UNCHANGED << now, stock, report, applied, handed >>

\* await sale.save() throws (the body fails the schema, or the store fails):
\* nothing is inserted; catch answers 400.
createSale_saveThrows(r, body) ==
    /\ Free(r)
    /\ res' = Response("create", 400, IF body.valid THEN "store" ELSE "validation")
    /\ UNCHANGED << now, stock, sales, nextId, req, report, applied, handed >>

\* Advance leaving the loop one line item early.
Advance_skipsLast(r) ==
    IF req[r].k + 1 >= Len(req[r].items) THEN Idle ELSE [req[r] EXCEPT !.k = @ + 1]

\* Request r after the stock adjustment of its line item k went through:
\* on to the next line item, or out of the loop after the last one.
Advance(r) ==
    IF req[r].k >= Len(req[r].items) THEN Idle ELSE [req[r] EXCEPT !.k = @ + 1]

\* for (const soldItem of sale.items)
\*     await Item.findByIdAndUpdate(soldItem.item_id, {$inc: {stock: -soldItem.quantity}})
\* one iteration; after the last one, res.status(201).
createSale_inc(r) ==
    /\ req[r].kind = "create"
    /\ req[r].pc = "loop"
    /\ stock' = IncStock(stock, req[r].items[req[r].k].item_id,
                         -req[r].items[req[r].k].quantity)
    /\ req' = [req EXCEPT ![r] = Advance(r)]
    /\ applied' = [applied EXCEPT ![r] =
                     IF req'[r].pc = "idle" THEN NoChange
                     ELSE Plus(@, Change(stock, stock'))]
    /\ res' = IF req'[r].pc = "idle" THEN Response("create", 201, "none") ELSE res
    /\ UNCHANGED << now, sales, nextId, report, handed >>

\* createSale_incThrows with a catch that undoes the request: the sale is
\* removed and the decrements made so far are added back.
createSale_incThrows_rollsBack(r) ==
    /\ req[r].kind = "create"
    /\ req[r].pc = "loop"
    /\ req' = [req EXCEPT ![r] = Idle]
    /\ applied' = [applied EXCEPT ![r] = NoChange]
    /\ res' = Response("create", 400, "store")
    /\ sales' = Drop(sales, req[r].id)
    /\ stock' = [i \in Items |-> stock[i] - applied[r][i]]
    /\ UNCHANGED << now, nextId, report, handed >>

\* One iteration's findByIdAndUpdate throws: the loop is left, catch answers
\* 400; the sale and the adjustments made so far stay as they are.
createSale_incThrows(r) ==
    /\ req[r].kind = "create"
    /\ req[r].pc = "loop"
    /\ req' = [req EXCEPT ![r] = Idle]
    /\ applied' = [applied EXCEPT ![r] = NoChange]
    /\ res' = Response("create", 400, "store")
    /\ UNCHANGED << now, stock, sales, nextId, report, handed >>

(* ---------------------------- updateSale ------------------------------- *)

\* The document doc with the fields of the update body set on it.
SetFields(doc, body) ==
    [doc EXCEPT !.user_id = body.user_id,
                !.items = IF body.set_items THEN body.items ELSE @]

\* updateSale adjusting the stock by the difference between the old and the
\* new line items.
updateSale_reconciles(r, id, body) ==
    /\ Free(r)
    /\ body.valid
    /\ sales' = IF id \in DOMAIN sales
                THEN [sales EXCEPT ![id] = SetFields(@, body)]
                ELSE sales
    /\ stock' = IF id \in DOMAIN sales
                THEN [i \in Items |-> stock[i] + QtyOf(sales[id].items, i)
                                              - QtyOf(sales'[id].items, i)]
                ELSE stock
    /\ res' = Response("update", IF id \in DOMAIN sales THEN 200 ELSE 404, "none")
    /\ UNCHANGED << now, nextId, req, report, applied, handed >>

\* await Sale.findByIdAndUpdate(req.params.id, req.body, {new: true}), then
\* the answer: 404 when no sale has the id, 200 otherwise.  The item
\* collection is not touched.
updateSale(r, id, body) ==
    /\ Free(r)
    /\ body.valid
    /\ sales' = IF id \in DOMAIN sales
                THEN [sales EXCEPT ![id] = SetFields(@, body)]
                ELSE sales
    /\ res' = Response("update", IF id \in DOMAIN sales THEN 200 ELSE 404, "none")
    /\ UNCHANGED << now, stock, nextId, req, report, applied, handed >>

\* findByIdAndUpdate throws (the body cannot be cast to the schema, or the
\* store fails): nothing is written; catch answers 400.
updateSale_throws(r, id, body) ==
    /\ Free(r)
    /\ res' = Response("update", 400, IF body.valid THEN "store" ELSE "validation")
    /\ UNCHANGED << now, stock, sales, nextId, req, report, applied, handed >>

(* ---------------------------- deleteSale ------------------------------- *)

\* findByIdAndDelete as a find followed by a delete: a sale another delete
\* request has found and removed is found again.
findByIdAndDelete_notAtomic(id) ==
    IF id \in DOMAIN sales
    THEN [null |-> FALSE, items |-> sales[id].items]
    ELSE IF \E q \in Reqs : req[q].kind = "delete" /\ req[q].id = id
         THEN [null |-> FALSE,
               items |-> req[CHOOSE q \in Reqs :
                                req[q].kind = "delete" /\ req[q].id = id].items]
         ELSE [null |-> TRUE, items |-> << >>]

\* Sale.findByIdAndDelete(id): one atomic operation of the store; what it
\* returns: the document it removed, or null when no sale has the id.
findByIdAndDelete(id) ==
    IF id \in DOMAIN sales
    THEN [null |-> FALSE, items |-> sales[id].items]
    ELSE [null |-> TRUE, items |-> << >>]

\* deleteSale_find without the check of the sale found: reading the items
\* of null throws, catch answers 500.
deleteSale_find_unchecked(r, id) ==
    /\ Free(r)
    /\ LET sale == findByIdAndDelete(id)
       IN  IF sale.null
           THEN /\ res' = Response("delete", 500, "store")
                /\ UNCHANGED << sales, handed, req >>
           ELSE /\ sales' = Drop(sales, id)
                /\ handed' = [handed EXCEPT ![id] = @ + 1]
                /\ IF sale.items = << >>
                   THEN /\ res' = Response("delete", 200, "none")
                        /\ UNCHANGED req
                   ELSE /\ req' = [req EXCEPT ![r] =
                                    [kind |-> "delete", pc |-> "loop", id |-> id,
                                     items |-> sale.items, k |-> 1]]
                        /\ UNCHANGED res
    /\ UNCHANGED << now, stock, nextId, report, applied >>

\* const sale = await Sale.findByIdAndDelete(req.params.id);
\* if (!sale) return res.status(404)...  With no line item the loop is empty
\* and res.status(200) follows at once.
deleteSale_find(r, id) ==
    /\ Free(r)
    /\ LET sale == findByIdAndDelete(id)
       IN  IF sale.null
           THEN /\ res' = Response("delete", 404, "none")
                /\ UNCHANGED << sales, handed, req >>
           ELSE /\ sales' = Drop(sales, id)
                /\ handed' = [handed EXCEPT ![id] = @ + 1]
                /\ IF sale.items = << >>
                   THEN /\ res' = Response("delete", 200, "none")
                        /\ UNCHANGED req
                   ELSE /\ req' = [req EXCEPT ![r] =
                                    [kind |-> "delete", pc |-> "loop", id |-> id,
                                     items |-> sale.items, k |-> 1]]
                        /\ UNCHANGED res
    /\ UNCHANGED << now, stock, nextId, report, applied >>

\* findByIdAndDelete throws (the store fails): nothing is removed; catch
\* answers 500.
deleteSale_findThrows(r, id) ==
    /\ Free(r)
    /\ res' = Response("delete", 500, "store")
    /\ UNCHANGED << now, stock, sales, nextId, req, report, applied, handed >>

\* for (const soldItem of sale.items)
\*     await Item.findByIdAndUpdate(soldItem.item_id, {$inc: {stock: soldItem.quantity}})
\* one iteration; after the last one, res.status(200).
deleteSale_inc(r) ==
    /\ req[r].kind = "delete"
    /\ req[r].pc = "loop"
    /\ stock' = IncStock(stock, req[r].items[req[r].k].item_id,
                         req[r].items[req[r].k].quantity)
    /\ req' = [req EXCEPT ![r] = Advance(r)]
    /\ applied' = [applied EXCEPT ![r] =
                     IF req'[r].pc = "idle" THEN NoChange
                     ELSE Plus(@, Change(stock, stock'))]
    /\ res' = IF req'[r].pc = "idle" THEN Response("delete", 200, "none") ELSE res
    /\ UNCHANGED << now, sales, nextId, report, handed >>

\* One iteration's findByIdAndUpdate throws: the loop is left, catch answers
\* 500.
deleteSale_incThrows(r) ==
    /\ req[r].kind = "delete"
    /\ req[r].pc = "loop"
    /\ req' = [req EXCEPT ![r] = Idle]
    /\ applied' = [applied EXCEPT ![r] = NoChange]
    /\ res' = Response("delete", 500, "store")
    /\ UNCHANGED << now, stock, sales, nextId, report, handed >>

(* --------------------------- specifications ---------------------------- *)

\* The handlers of the sale lifecycle while the store works.
NextNoFault ==
    \E r \in Reqs :
        \/ \E body \in CreateBodies : createSale_save(r, body)
        \/ createSale_inc(r)
        \/ \E id \in SaleIds, body \in UpdateBodies : updateSale(r, id, body)
        \/ \E id \in SaleIds : deleteSale_find(r, id)
        \/ deleteSale_inc(r)

\* What the handlers do when a body is refused or a store operation fails.
NextFault ==
    \E r \in Reqs :
        \/ \E body \in ThrowingCreateBodies : createSale_saveThrows(r, body)
        \/ createSale_incThrows(r)
        \/ \E id \in SaleIds, body \in ThrowingUpdateBodies : updateSale_throws(r, id, body)
        \/ \E id \in SaleIds : deleteSale_findThrows(r, id)
        \/ deleteSale_incThrows(r)

Next == NextNoFault \/ NextFault

\* Every request, every interleaving, the store failing at any operation.
Spec == Init /\ [][Next]_vars

\* Every request, every interleaving, the store never failing.
NoFaultSpec == Init /\ [][NextNoFault]_vars

\* createSale and deleteSale requests only, the store never failing.
NextCreateDelete ==
    \E r \in Reqs :
        \/ \E body \in CreateBodies : createSale_save(r, body)
        \/ createSale_inc(r)
        \/ \E id \in SaleIds : deleteSale_find(r, id)
        \/ deleteSale_inc(r)

CreateDeleteSpec == Init /\ [][NextCreateDelete]_vars

(* ----------------------- getFrequentlySoldItems ------------------------ *)

\* { $unwind: "$items" } on one sale: one document per line item.
UnwindSale(doc) ==
    [k \in 1..Len(doc.items) |->
        [user_id |-> doc.user_id, date |-> doc.date, items |-> doc.items[k]]]

\* { $unwind: "$items" } on the collection, from sale id on.
RECURSIVE Unwind(_)
Unwind(id) ==
    IF id >= nextId THEN << >>
    ELSE (IF id \in DOMAIN sales THEN UnwindSale(sales[id]) ELSE << >>) \o Unwind(id + 1)

\* { $match: { date: { $gte: bound } } }
Match(docs, bound) ==
    LET Recent(d) == d.date >= bound IN SelectSeq(docs, Recent)

\* AddToGroup with the groups keyed by the item alone.
AddToGroup_byItem(groups, d) ==
    LET key == [item_id |-> d.items.item_id, user_id |-> d.user_id]
    IN  IF \E j \in 1..Len(groups) : groups[j]._id.item_id = key.item_id
        THEN [j \in 1..Len(groups) |->
                 IF groups[j]._id.item_id = key.item_id
                 THEN [groups[j] EXCEPT !.totalQuantitySold = @ + d.items.quantity]
                 ELSE groups[j]]
        ELSE Append(groups, [_id |-> key, totalQuantitySold |-> d.items.quantity])

\* The groups with one more document counted in: its quantity added to the
\* group of its (item_id, user_id), a new group when there is none.
AddToGroup(groups, d) ==
    LET key == [item_id |-> d.items.item_id, user_id |-> d.user_id]
    IN  IF \E j \in 1..Len(groups) : groups[j]._id = key
        THEN [j \in 1..Len(groups) |->
                 IF groups[j]._id = key
                 THEN [groups[j] EXCEPT !.totalQuantitySold = @ + d.items.quantity]
                 ELSE groups[j]]
        ELSE Append(groups, [_id |-> key, totalQuantitySold |-> d.items.quantity])

\* { $group: { _id: { item_id, user_id }, totalQuantitySold: { $sum: "$items.quantity" } } }
RECURSIVE Group(_, _)
Group(groups, docs) ==
    IF docs = << >> THEN groups ELSE Group(AddToGroup(groups, Head(docs)), Tail(docs))

\* $project: each group as { item_id, user_id, totalQuantitySold }.
Project(groups) ==
    [j \in 1..Len(groups) |->
        [item_id |-> groups[j]._id.item_id, user_id |-> groups[j]._id.user_id,
         totalQuantitySold |-> groups[j].totalQuantitySold]]

\* One pipeline of the $facet, projected.
Facet(bound) == Project(Group(<< >>, Match(Unwind(1), bound)))

\* Sale.aggregate([...])[0]: the three windows, each over the whole collection.
Aggregate ==
    [weekly |-> Facet(pastWeek(now)),
     monthly |-> Facet(pastMonth(now)),
     yearly |-> Facet(pastYear(now))]

\* formatResults after Sale.populate: item_id is the item record, user_id the
\* user record, null when the collection has none.
formatResults(rows) ==
    [j \in 1..Len(rows) |->
        [_id |-> rows[j].item_id,
         totalQuantitySold |-> rows[j].totalQuantitySold,
         stock |-> stock[rows[j].item_id],
         user_name |-> IF rows[j].user_id \in DOMAIN UserName
                       THEN UserName[rows[j].user_id] ELSE "Unknown"]]

\* item.item_id._id of a row whose item is null throws.
formatResults_throws(rows) == \E j \in 1..Len(rows) : rows[j].item_id \notin DOMAIN stock

\* The handler, with the store read at one instant: the aggregation, the
\* three populates and the formatting; 200 with the three lists, or catch
\* answers 500.
getFrequentlySoldItems(r) ==
    /\ Free(r)
    /\ LET agg == Aggregate
       IN  IF formatResults_throws(agg.weekly) \/ formatResults_throws(agg.monthly)
                \/ formatResults_throws(agg.yearly)
           THEN /\ res' = Response("report", 500, "type")
                /\ report' = [agg |-> agg, body |-> NoReport]
           ELSE /\ res' = Response("report", 200, "none")
                /\ report' = [agg |-> agg,
                              body |-> [weekly |-> formatResults(agg.weekly),
                                        monthly |-> formatResults(agg.monthly),
                                        yearly |-> formatResults(agg.yearly)]]
    /\ UNCHANGED << now, stock, sales, nextId, req, applied, handed >>

\* The clock readings of the report model.
Nows ==
    { [y |-> 2024, m |-> 3, d |-> 31],
      [y |-> 2024, m |-> 5, d |-> 15],
      [y |-> 2024, m |-> 1, d |-> 15] }

\* How many days before the clock reading the stored sales are dated.
Ages == {3, 30, 40, 400}

\* The line-item arrays of the stored sales of the report model.
ReportItems ==
    { << Line("A", 1) >>,
      << Line("B", 2), Line("A", 1) >>,
      << Line(DanglingItem, 1) >> }

\* The sale documents the collection may hold when the clock reads t.
ReportSales(t) ==
    { [user_id |-> u, date |-> DayOf(t) - a, items |-> it] :
          u \in {"U1", DanglingUser}, a \in Ages, it \in ReportItems }

\* A store that holds up to MaxStored sales, their quantities taken from the
\* stock, and no request in progress.
InitReport ==
    /\ now \in Nows
    /\ \E n \in 0..MaxStored :
          /\ sales \in [1..n -> ReportSales(now)]
          /\ nextId = n + 1
    /\ stock = [i \in Items |-> InitStock[i] - Sold(sales, MaxStored, i)]
    /\ req = [r \in Reqs |-> Idle]
    /\ res = Response("none", 0, "none")
    /\ report = [agg |-> NoReport, body |-> NoReport]
    /\ applied = [r \in Reqs |-> NoChange]
    /\ handed = [s \in SaleIds |-> 0]

NextReport == \E r \in Reqs : getFrequentlySoldItems(r)

ReportSpec == InitReport /\ [][NextReport]_vars

(* ------------------------------ claims --------------------------------- *)

Neg(f) == [i \in Items |-> -f[i]]

\* Per item, the quantity the line items take from it.
QtyAll(items) == [i \in Items |-> QtyOf(items, i)]

\* The line items before the k-th, and from the k-th on.
Before(items, k) == SubSeq(items, 1, k - 1)

From(items, k) == SubSeq(items, k, Len(items))

Quiescent == \A r \in Reqs : req[r].pc = "idle"

\* Request r leaves its loop in this step.
LeavesLoop(r, kind) ==
    /\ req[r].kind = kind
    /\ req[r].pc = "loop"
    /\ req'[r].pc = "idle"

\* What a step of createSale does to the stock and to the sale collection.
C1_CreateStep ==
    /\ \A r \in Reqs :
          /\ (req[r].kind = "create" /\ req'[r] # req[r]
                /\ ~(LeavesLoop(r, "create") /\ res'.err # "none")) =>
                /\ Change(stock, stock') = Neg(QtyAll(<< req[r].items[req[r].k] >>))
                /\ sales' = sales
          /\ (LeavesLoop(r, "create") /\ res'.err = "none") =>
                /\ res' = Response("create", 201, "none")
                /\ req[r].k = Len(req[r].items)
                /\ Plus(applied[r], Change(stock, stock')) = Neg(QtyAll(req[r].items))
                /\ req[r].id \in DOMAIN sales \/ handed[req[r].id] > 0
    /\ nextId' # nextId =>
          /\ sales' = Put(sales, nextId, sales'[nextId])
          /\ stock' = stock
          /\ sales'[nextId].items = << >> => res' = Response("create", 201, "none")
          /\ sales'[nextId].items # << >> =>
                \E q \in Reqs : /\ req[q].pc = "idle"
                                /\ req'[q].kind = "create"
                                /\ req'[q].id = nextId
                                /\ req'[q].items = sales'[nextId].items
                                /\ req'[q].k = 1
                                /\ applied'[q] = NoChange

\* C1: a createSale that succeeds answers 201, has stored its sale, and has
\* taken from each item's stock exactly the quantities of the line items that
\* reference it, summed per item whatever their order, one line item per
\* step, and nothing from any other item.
C1_Create == [][C1_CreateStep]_vars

\* A sale with two line items of item A was created: A's stock is down by 3.
C1_Witness ==
    /\ res = Response("create", 201, "none")
    /\ Quiescent
    /\ 1 \in DOMAIN sales
    /\ sales[1].items = << Line("A", 1), Line("A", 2) >>
    /\ stock = [InitStock EXCEPT !["A"] = @ - 3]

\* What the last step of a deleteSale that succeeds has done to the stock.
C2_DeleteStep ==
    \A r \in Reqs :
        (LeavesLoop(r, "delete") /\ res'.status = 200) =>
            /\ Plus(applied[r], Change(stock, stock')) = QtyAll(req[r].items)
            /\ (nextId = 2 /\ \A q \in Reqs \ {r} : req[q].pc = "idle") =>
                   stock' = InitStock

\* C2: a deleteSale that succeeds has added to each item's stock the
\* quantity recorded on the sale at deletion time, and thereby restored the
\* stock to its value before the sale was created when no other sale touched
\* the item in between (here: the only sale ever created, no other request
\* in progress), also when updateSale changed the sale in between.
C2_DeleteRestores == [][C2_DeleteStep]_vars

\* C3: whenever no request is in progress, every item's stock is its initial
\* stock minus the quantities of the line items that reference it in the
\* sales that exist.
C3_StockMatchesSales ==
    Quiescent =>
        \A i \in Items : stock[i] = InitStock[i] - Sold(sales, MaxSales, i)

\* The quantity the loops in progress of handler kind have still to move on
\* item i, for the requests up to n.
RECURSIVE Pending(_, _, _)
Pending(kind, n, i) ==
    IF n = 0 THEN 0
    ELSE (IF req[n].kind = kind THEN QtyOf(From(req[n].items, req[n].k), i) ELSE 0)
           + Pending(kind, n - 1, i)

\* C4: with createSale and deleteSale requests interleaved in any way, no
\* stock adjustment is lost: every item's stock is its initial stock plus all
\* the deltas applied so far, and so, once every request has completed, the
\* value the same requests give when run one after another.
C4_NoLostUpdate ==
    \A i \in Items :
        stock[i] = InitStock[i] - Sold(sales, MaxSales, i)
                     + Pending("create", MaxReq, i) - Pending("delete", MaxReq, i)

\* A createSale and a deleteSale are in their loops at once, both having
\* adjusted item A.
C4_Witness ==
    \E r, q \in Reqs :
        /\ req[r].kind = "create" /\ req[r].k = 2
        /\ req[q].kind = "delete" /\ req[q].k = 2
        /\ req[r].items[1].item_id = "A"
        /\ req[q].items[1].item_id = "A"

\* What a step of updateSale leaves unchanged.
C5_UpdateStep ==
    (req' = req /\ res'.kind = "update") =>
        /\ stock' = stock
        /\ nextId' = nextId
        /\ handed' = handed
        /\ DOMAIN sales' = DOMAIN sales
        /\ Cardinality({ s \in DOMAIN sales : sales'[s] # sales[s] }) <= 1

\* C5: updateSale changes no item's stock, whatever the sale id and the
\* body; at most the sale with that id changes.
C5_UpdateKeepsStock == [][C5_UpdateStep]_vars

\* The sale created with 3 of item A was updated to 1 of item A: A's stock
\* is still down by 3.
C5_Witness ==
    /\ res = Response("update", 200, "none")
    /\ Quiescent
    /\ 1 \in DOMAIN sales
    /\ sales[1].items = << Line("A", 1) >>
    /\ stock = [InitStock EXCEPT !["A"] = @ - 3]

\* What a deleteSale step on an id with no sale does.
C6_DeleteMissingStep ==
    \A r \in Reqs, id \in SaleIds :
        (id \notin DOMAIN sales /\ deleteSale_find(r, id)) =>
            /\ res' = Response("delete", 404, "none")
            /\ stock' = stock
            /\ sales' = sales
            /\ req' = req
            /\ applied' = applied

\* C6: deleteSale on a sale id that does not exist answers 404 before any
\* stock increment: no stock changes, no sale changes, no loop is entered.
C6_DeleteMissing == [][C6_DeleteMissingStep]_vars

\* A deleteSale of a sale deleted before answered 404.
C6_Witness ==
    /\ res = Response("delete", 404, "none")
    /\ nextId = 2
    /\ sales = << >>
    /\ Quiescent

\* The status each kind of outcome is answered with.
C7_TaxonomyStep ==
    /\ res'.err = "validation" => res'.status = 400
    /\ \A r \in Reqs :
          (req[r].pc = "loop" /\ req'[r].pc = "idle" /\ res'.err = "store") =>
              res'.status = 500
    /\ \A r \in Reqs, id \in SaleIds :
          (id \notin DOMAIN sales /\ deleteSale_find(r, id)) => res'.status = 404
    /\ \A r \in Reqs, id \in SaleIds, body \in UpdateBodies :
          (id \notin DOMAIN sales /\ updateSale(r, id, body)) => res'.status = 404

\* C7: a missing sale answers 404, a refused body answers 400, and a stock
\* adjustment that fails in the loop of createSale or deleteSale answers 500,
\* never 400.
C7_Taxonomy == [][C7_TaxonomyStep]_vars

\* The lower bound of a report window.
Bound(w) ==
    CASE w = "weekly" -> pastWeek(now)
      [] w = "monthly" -> pastMonth(now)
      [] w = "yearly" -> pastYear(now)

Windows == {"weekly", "monthly", "yearly"}

ItemIds == Items \cup {DanglingItem}

UserIds == DOMAIN UserName \cup {DanglingUser}

\* The stored sales of user u dated bound or later, but for sale x.
InWindow(bound, u, x) ==
    { s \in DOMAIN sales \ {x} : sales[s].user_id = u /\ sales[s].date >= bound }

\* The quantity of item i in the sales S, ids up to n.
RECURSIVE Total(_, _, _)
Total(S, n, i) ==
    IF n = 0 THEN 0
    ELSE (IF n \in S THEN QtyOf(sales[n].items, i) ELSE 0) + Total(S, n - 1, i)

Sells(s, i) == \E k \in 1..Len(sales[s].items) : sales[s].items[k].item_id = i

\* The rows of (i, u) in a window of the aggregation.
RowsOf(w, i, u) ==
    { j \in 1..Len(report.agg[w]) :
          report.agg[w][j].item_id = i /\ report.agg[w][j].user_id = u }

\* What window w of the report counts for (i, u); 0 when it has no row.
Counted(w, i, u) ==
    IF RowsOf(w, i, u) = {} THEN 0
    ELSE report.agg[w][CHOOSE j \in RowsOf(w, i, u) : TRUE].totalQuantitySold

\* What sale s adds to window w of the report for item i: what the window
\* counts beyond the other sales of the window.
Contributes(s, w, i) ==
    Counted(w, i, sales[s].user_id)
      - Total(InWindow(Bound(w), sales[s].user_id, s), MaxStored, i)

Age(s) == DayOf(now) - sales[s].date

\* Each window of a report has exactly one row per (item_id, user_id) with a
\* line item in a stored sale dated the window's lower bound or later, its
\* totalQuantitySold the sum of those line items' quantities, and the
\* response lists the same rows.
RowsAreSums ==
    \A w \in Windows :
        /\ \A i \in ItemIds, u \in UserIds :
              LET S == InWindow(Bound(w), u, 0)
              IN  /\ Cardinality(RowsOf(w, i, u)) =
                        (IF \E s \in S : Sells(s, i) THEN 1 ELSE 0)
                  /\ Counted(w, i, u) = Total(S, MaxStored, i)
        /\ Len(report.body[w]) = Len(report.agg[w])
        /\ \A j \in 1..Len(report.agg[w]) :
              /\ report.body[w][j]._id = report.agg[w][j].item_id
              /\ report.body[w][j].totalQuantitySold =
                    report.agg[w][j].totalQuantitySold

Reported == res = Response("report", 200, "none")

C9_InOrder ==
    \A r \in Reqs :
        (req[r].kind = "create" /\ req[r].pc = "loop") =>
            /\ req[r].id < nextId
            /\ req[r].id \in DOMAIN sales \/ handed[req[r].id] > 0
            /\ req[r].k \in 1..Len(req[r].items)
            /\ applied[r] = Neg(QtyAll(Before(req[r].items, req[r].k)))

\* The step in which a decrement of createSale throws.
C9_FailStep ==
    \A r \in Reqs :
        (LeavesLoop(r, "create") /\ res'.err # "none") =>
            /\ res'.kind = "create"
            /\ res'.status >= 400
            /\ stock' = stock
            /\ sales' = sales
            /\ nextId' = nextId
            /\ req' = [req EXCEPT ![r] = Idle]

\* C9: createSale stores the sale before any decrement and decrements one
\* line item at a time in order; when the k-th decrement fails the response
\* is an error, the sale stays stored, the decrements of the line items
\* before k stay applied, those from k on are never made, nothing is undone.
C9_NoRollback == []C9_InOrder /\ [][C9_FailStep]_vars

\* createSale of (A,2),(B,1) failed on its second decrement: the sale is
\* stored, A's stock is down by 2, B's is untouched.
C9_Witness ==
    /\ res = Response("create", 400, "store")
    /\ Quiescent
    /\ 1 \in DOMAIN sales
    /\ sales[1].items = << Line("A", 2), Line("B", 1) >>
    /\ stock = [InitStock EXCEPT !["A"] = @ - 2]

\* At any time: a sale id is handed to at most one deleteSale request, which
\* adds back the line items before its current one.
C10_HandedOnce ==
    \A s \in SaleIds :
        /\ handed[s] <= 1
        /\ handed[s] = 1 => s \notin DOMAIN sales
        /\ Cardinality({ r \in Reqs : req[r].kind = "delete" /\ req[r].id = s }) <= handed[s]
        /\ \A r \in Reqs :
              (req[r].kind = "delete" /\ req[r].id = s) =>
                  applied[r] = QtyAll(Before(req[r].items, req[r].k))

\* The deleteSale steps: the last step of the request that was handed the
\* sale, and a find of a sale id handed out before.
C10_DeleteStep ==
    \A r \in Reqs :
        /\ (LeavesLoop(r, "delete") /\ res'.err = "none") =>
              /\ res' = Response("delete", 200, "none")
              /\ Plus(applied[r], Change(stock, stock')) = QtyAll(req[r].items)
        /\ \A s \in SaleIds :
              (handed[s] >= 1 /\ deleteSale_find(r, s)) =>
                  /\ res' = Response("delete", 404, "none")
                  /\ stock' = stock
                  /\ handed' = handed

\* C10: of the deleteSale requests for one sale id, findByIdAndDelete hands
\* the sale to one only: that one adds the sale's quantities to the stock
\* and answers 200, every other one answers 404 and changes no stock.
C10_OneDeleteWins == []C10_HandedOnce /\ [][C10_DeleteStep]_vars

\* While the deleteSale that was handed sale 1 is in its loop, another
\* deleteSale answered 404.
C10_Witness ==
    /\ req[1].kind = "delete"
    /\ req[1].id = 1
    /\ req[1].k = 2
    /\ handed[1] = 1
    /\ res = Response("delete", 404, "none")

====
